---- MODULE Spec2Model ----
(***************************************************************************)
(* Model of the customer form flow of aws_connect_sample/flow_manager.py:  *)
(* FormData, CustomerFlow and FlowManager.                                 *)
(*                                                                         *)
(* A text is a sequence of one-character strings; Optional[str] form       *)
(* values are a text or None.  CustomerFlow instances live in a heap       *)
(* (a sequence, the reference of an instance is its index) and             *)
(* FlowManager.flows maps a chat_guid to a reference.  last_updated and    *)
(* the history timestamps are wall-clock values and are left out.          *)
(***************************************************************************)
EXTENDS Integers, Sequences, FiniteSets, TLC

(* ---------------------------------------------------------------- bounds *)
\* total number of conversation_history entries over all flows
MaxHist == 5
\* the same, in SpecExt
MaxExtHist == 4
\* the same, in SpecPair
MaxPairHist == 2
\* the same, in SpecHook
MaxHookHist == 4

(* ------------------------------------------------------------ input sets *)
ChatGuids == {"c1", "c2"}
Threads == {"t1", "t2"}
\* the chat_guids calls made one at a time are about
SeqGuids == {"c1"}
\* "  ", "a", " b a "
Texts == { <<" ", " ">>, <<"a">>, <<" ", "b", " ", "a", " ">> }

(* ------------------------------------------------------------- FlowState *)
IDLE == "idle"
WAITING_FOR_FORM == "waiting_for_form"
FILLING_FORM == "filling_form"
FORM_COMPLETE == "form_complete"
AWAITING_AGENT == "awaiting_agent"
IN_CONVERSATION == "in_conversation"

\* Python None as an Optional[str] form value (not a text: "None" is no character)
None == << "None" >>
\* Python None as CustomerFlow.current_field
NoField == "None"
\* chat_guid not in self.flows
NoRef == 0

(* ------------------------------------------------------------- str.strip *)
IsSpace(c) == c = " "

RECURSIVE lstrip(_)
lstrip(s) == IF s # <<>> /\ IsSpace(Head(s)) THEN lstrip(Tail(s)) ELSE s

RECURSIVE rstrip(_)
rstrip(s) ==
  IF s # <<>> /\ IsSpace(s[Len(s)]) THEN rstrip(SubSeq(s, 1, Len(s) - 1)) ELSE s

\* faulty variant: the text stored as received
strip_nostrip(s) == s
strip(s) == rstrip(lstrip(s))

\* truthiness of an Optional[str]
Truthy(v) == v # None /\ v # <<>>

(* -------------------------------------------------------------- FormData *)
FormData == [name |-> None, company |-> None, country |-> None, email |-> None]

\* faulty variant: any() for all()
is_complete_any(form_data) ==
  Truthy(form_data.name) \/ Truthy(form_data.company)
    \/ Truthy(form_data.country) \/ Truthy(form_data.email)
is_complete(form_data) ==
  Truthy(form_data.name) /\ Truthy(form_data.company)
    /\ Truthy(form_data.country) /\ Truthy(form_data.email)

(* ---------------------------------------------------------- CustomerFlow *)
field_order == << "name", "company", "country", "email" >>

CustomerFlow(chat_guid) ==
  [ chat_guid |-> chat_guid,
    state |-> IDLE,
    form_data |-> FormData,
    current_field |-> NoField,
    field_index |-> 0,
    conversation_history |-> <<>> ]

\* field_index is 0-based, field_order 1-based
get_next_field(flow) ==
  IF flow.field_index < Len(field_order)
  THEN field_order[flow.field_index + 1]
  ELSE NoField

\* faulty variant: the value stored in a new, otherwise empty FormData
set_field_value_fresh(flow, field_id, value) ==
  IF field_id \in DOMAIN flow.form_data
  THEN [flow EXCEPT !.form_data = [FormData EXCEPT ![field_id] = value]]
  ELSE flow
set_field_value(flow, field_id, value) ==
  IF field_id \in DOMAIN flow.form_data
  THEN [flow EXCEPT !.form_data[field_id] = value]
  ELSE flow

\* faulty variant: past the last field the index wraps to the first
advance_to_next_field_wrap(flow) ==
  IF flow.field_index < Len(field_order) - 1
  THEN LET f1 == [flow EXCEPT !.field_index = @ + 1]
       IN  [f1 EXCEPT !.current_field = get_next_field(f1)]
  ELSE [flow EXCEPT !.field_index = 0, !.current_field = NoField]

advance_to_next_field(flow) ==
  IF flow.field_index < Len(field_order) - 1
  THEN LET f1 == [flow EXCEPT !.field_index = @ + 1]
       IN  [f1 EXCEPT !.current_field = get_next_field(f1)]
  ELSE [flow EXCEPT !.current_field = NoField]

\* faulty variant: the history cleared as well
reset_clear_history(flow) ==
  [flow EXCEPT !.state = IDLE, !.form_data = FormData, !.field_index = 0,
               !.current_field = NoField, !.conversation_history = <<>>]
\* faulty variant: field_index not reset
reset_keep_index(flow) ==
  [flow EXCEPT !.state = IDLE, !.form_data = FormData, !.current_field = NoField]
reset(flow) ==
  [flow EXCEPT !.state = IDLE,
               !.form_data = FormData,
               !.field_index = 0,
               !.current_field = NoField]

\* the entry process_form_response appends to conversation_history
HistoryEntry(field, value) ==
  [type |-> "customer_input", field |-> field, value |-> value]

(* ----------------------------------------------------------- FlowManager *)
\* A manager m is [flows, heap].
FlowManager == [flows |-> [g \in ChatGuids |-> NoRef], heap |-> <<>>]

\* faulty variant: a new CustomerFlow on every call
get_or_create_flow_always(m, chat_guid) ==
  [flows |-> [m.flows EXCEPT ![chat_guid] = Len(m.heap) + 1],
   heap |-> Append(m.heap, CustomerFlow(chat_guid))]
get_or_create_flow(m, chat_guid) ==
  IF m.flows[chat_guid] = NoRef
  THEN [flows |-> [m.flows EXCEPT ![chat_guid] = Len(m.heap) + 1],
        heap |-> Append(m.heap, CustomerFlow(chat_guid))]
  ELSE m

\* m with the flow registered under chat_guid replaced by flow
\* faulty variant: the assignment lands on the flow constructed last
WithFlow_latest(m, chat_guid, flow) ==
  [m EXCEPT !.heap[Len(m.heap)] = flow]
WithFlow(m, chat_guid, flow) ==
  [m EXCEPT !.heap[m.flows[chat_guid]] = flow]

FlowOf(m, chat_guid) == m.heap[m.flows[chat_guid]]

start_form_flow(m, chat_guid) ==
  LET m1 == get_or_create_flow(m, chat_guid)
      f1 == [FlowOf(m1, chat_guid) EXCEPT !.state = FILLING_FORM, !.field_index = 0]
      f2 == [f1 EXCEPT !.current_field = get_next_field(f1)]
  IN  WithFlow(m1, chat_guid, f2)

\* faulty variant: the history entry appended after advance_to_next_field
AcceptInput_histAfterAdvance(flow, message_text) ==
  LET f1 == set_field_value(flow, flow.current_field, strip(message_text))
      f2 == advance_to_next_field(f1)
      f3 == [f2 EXCEPT !.conversation_history =
               Append(@, HistoryEntry(f2.current_field, strip(message_text)))]
  IN  IF is_complete(f3.form_data)
      THEN [flow |-> [f3 EXCEPT !.state = FORM_COMPLETE], complete |-> TRUE]
      ELSE [flow |-> f3, complete |-> FALSE]

\* the body of process_form_response once state and current_field are checked
AcceptInput(flow, message_text) ==
  LET f1 == set_field_value(flow, flow.current_field, strip(message_text))
      f2 == [f1 EXCEPT !.conversation_history =
               Append(@, HistoryEntry(flow.current_field, strip(message_text)))]
      f3 == advance_to_next_field(f2)
  IN  IF is_complete(f3.form_data)
      THEN [flow |-> [f3 EXCEPT !.state = FORM_COMPLETE], complete |-> TRUE]
      ELSE [flow |-> f3, complete |-> FALSE]

\* faulty variant: the state check left out
process_form_response_nostatecheck(m, chat_guid, message_text) ==
  LET m1 == get_or_create_flow(m, chat_guid)
      flow == FlowOf(m1, chat_guid)
  IN  IF flow.current_field = NoField
      THEN [m |-> m1, complete |-> FALSE]
      ELSE LET r == AcceptInput(flow, message_text)
           IN  [m |-> WithFlow(m1, chat_guid, r.flow), complete |-> r.complete]

\* returns [m, complete]
process_form_response(m, chat_guid, message_text) ==
  LET m1 == get_or_create_flow(m, chat_guid)
      flow == FlowOf(m1, chat_guid)
  IN  IF flow.state # FILLING_FORM
      THEN [m |-> m1, complete |-> FALSE]
      ELSE IF flow.current_field = NoField
      THEN [m |-> m1, complete |-> FALSE]
      ELSE LET r == AcceptInput(flow, message_text)
           IN  [m |-> WithFlow(m1, chat_guid, r.flow), complete |-> r.complete]

complete_form_flow(m, chat_guid) ==
  LET m1 == get_or_create_flow(m, chat_guid)
  IN  WithFlow(m1, chat_guid, [FlowOf(m1, chat_guid) EXCEPT !.state = AWAITING_AGENT])

start_conversation(m, chat_guid) ==
  LET m1 == get_or_create_flow(m, chat_guid)
  IN  WithFlow(m1, chat_guid, [FlowOf(m1, chat_guid) EXCEPT !.state = IN_CONVERSATION])

reset_flow(m, chat_guid) ==
  IF m.flows[chat_guid] # NoRef
  THEN WithFlow(m, chat_guid, reset(FlowOf(m, chat_guid)))
  ELSE m

\* FormData.to_dict: a new dict of the four values
to_dict(form_data) ==
  [ name |-> form_data.name, company |-> form_data.company,
    country |-> form_data.country, email |-> form_data.email ]

\* faulty variant: the flow constructed for the summary is not registered
get_flow_summary_unregistered(m, chat_guid) ==
  LET m1 == get_or_create_flow(m, chat_guid)
      flow == FlowOf(m1, chat_guid)
  IN  [ m |-> m,
        summary |-> [ chat_guid |-> chat_guid,
                      state |-> flow.state,
                      form_data |-> to_dict(flow.form_data),
                      is_form_complete |-> is_complete(flow.form_data),
                      conversation_history |-> m1.flows[chat_guid] ] ]
\* returns [m, summary]; the summary's conversation_history is the flow's own
\* list object, held here as the reference of the flow it belongs to
get_flow_summary(m, chat_guid) ==
  LET m1 == get_or_create_flow(m, chat_guid)
      flow == FlowOf(m1, chat_guid)
  IN  [ m |-> m1,
        summary |-> [ chat_guid |-> chat_guid,
                      state |-> flow.state,
                      form_data |-> to_dict(flow.form_data),
                      is_form_complete |-> is_complete(flow.form_data),
                      conversation_history |-> m1.flows[chat_guid] ] ]

(* ----------------------------------------------------------------- state *)
VARIABLES
  flows,      \* FlowManager.flows: chat_guid -> reference into heap, or NoRef
  heap,       \* every CustomerFlow constructed so far
  last,       \* the last call made one at a time and what it returned
  accepted,   \* per chat_guid, the (current field, raw text) of every call of
              \* process_form_response that passed both early returns
  wasReset,   \* per chat_guid, whether reset_flow found a flow to reset
  run,        \* per chat_guid, the run of accepted process_form_response calls
              \* since start_form_flow with no other call in between: their
              \* number n (-1: no such run), whether some text was blank, and
              \* clean: every form value was empty when start_form_flow ran
  summary,    \* the dict the last call returned, when that call was
              \* get_flow_summary (and what its caller has made of it since)
  tpc,        \* per thread, its position in the call it is executing
  tloc        \* per thread, the call's arguments and local variables

vars == << flows, heap, last, accepted, wasReset, run, summary, tpc, tloc >>

seqVars == << flows, heap, last, accepted, wasReset, run, summary >>
threadVars == << tpc, tloc >>

Manager == [flows |-> flows, heap |-> heap]

\* the flow registered under chat_guid, or NoFlow
NoFlow == [chat_guid |-> "None"]
Registered(m, chat_guid) ==
  IF m.flows[chat_guid] = NoRef THEN NoFlow ELSE FlowOf(m, chat_guid)

RECURSIVE TotalHist(_)
TotalHist(h) ==
  IF h = <<>> THEN 0 ELSE Len(Head(h).conversation_history) + TotalHist(Tail(h))

\* some character of text is not whitespace
NonBlank(text) == \E i \in 1..Len(text) : ~IsSpace(text[i])

AllEmpty(form_data) ==
  \A f \in DOMAIN form_data : ~Truthy(form_data[f])

NoRun == [n |-> -1, clean |-> FALSE, blank |-> FALSE]
IdleLoc == [op |-> "none"]
NoSummary == [chat_guid |-> "None"]

Init ==
  /\ flows = FlowManager.flows
  /\ heap = FlowManager.heap
  /\ last = [op |-> "init"]
  /\ accepted = [g \in ChatGuids |-> <<>>]
  /\ wasReset = [g \in ChatGuids |-> FALSE]
  /\ run = [g \in ChatGuids |-> NoRun]
  /\ summary = NoSummary
  /\ tpc = [t \in Threads |-> "idle"]
  /\ tloc = [t \in Threads |-> IdleLoc]

(* ------------------------------------------- calls made one at a time *)
Install(m) ==
  /\ flows' = m.flows
  /\ heap' = m.heap

GetOrCreate(chat_guid) ==
  /\ Install(get_or_create_flow(Manager, chat_guid))
  /\ last' = [op |-> "get_or_create_flow", chat_guid |-> chat_guid]
  /\ summary' = NoSummary
  /\ UNCHANGED << accepted, wasReset, run, threadVars >>

StartForm(chat_guid) ==
  /\ Install(start_form_flow(Manager, chat_guid))
  /\ last' = [op |-> "start_form_flow", chat_guid |-> chat_guid]
  /\ run' = [run EXCEPT ![chat_guid] =
               [n |-> 0, blank |-> FALSE,
                clean |-> AllEmpty(FlowOf(get_or_create_flow(Manager, chat_guid),
                                          chat_guid).form_data)]]
  /\ summary' = NoSummary
  /\ UNCHANGED << accepted, wasReset, threadVars >>

Process(chat_guid, message_text) ==
  LET r == process_form_response(Manager, chat_guid, message_text)
      pre == Registered(Manager, chat_guid)
      accepts == /\ pre # NoFlow
                 /\ pre.state = FILLING_FORM
                 /\ pre.current_field # NoField
  IN  /\ TotalHist(r.m.heap) <= MaxHist
      /\ Install(r.m)
      /\ last' = [op |-> "process_form_response", chat_guid |-> chat_guid,
                  complete |-> r.complete]
      /\ accepted' = IF accepts
                     THEN [accepted EXCEPT ![chat_guid] =
                             Append(@, [field |-> pre.current_field,
                                        text |-> message_text])]
                     ELSE accepted
      /\ run' = [run EXCEPT ![chat_guid] =
                   IF accepts /\ @.n \in 0..(Len(field_order) - 1)
                   THEN [n |-> @.n + 1, clean |-> @.clean,
                         blank |-> @.blank \/ ~NonBlank(message_text)]
                   ELSE NoRun]
      /\ summary' = NoSummary
      /\ UNCHANGED << wasReset, threadVars >>

CompleteForm(chat_guid) ==
  /\ Install(complete_form_flow(Manager, chat_guid))
  /\ last' = [op |-> "complete_form_flow", chat_guid |-> chat_guid]
  /\ run' = [run EXCEPT ![chat_guid] = NoRun]
  /\ summary' = NoSummary
  /\ UNCHANGED << accepted, wasReset, threadVars >>

StartConversation(chat_guid) ==
  /\ Install(start_conversation(Manager, chat_guid))
  /\ last' = [op |-> "start_conversation", chat_guid |-> chat_guid]
  /\ run' = [run EXCEPT ![chat_guid] = NoRun]
  /\ summary' = NoSummary
  /\ UNCHANGED << accepted, wasReset, threadVars >>

Reset(chat_guid) ==
  /\ Install(reset_flow(Manager, chat_guid))
  /\ last' = [op |-> "reset_flow", chat_guid |-> chat_guid]
  /\ wasReset' = [wasReset EXCEPT ![chat_guid] = @ \/ flows[chat_guid] # NoRef]
  /\ run' = [run EXCEPT ![chat_guid] = NoRun]
  /\ summary' = NoSummary
  /\ UNCHANGED << accepted, threadVars >>

Next ==
  \/ \E g \in SeqGuids : GetOrCreate(g)
  \/ \E g \in SeqGuids : StartForm(g)
  \/ \E g \in SeqGuids, x \in Texts : Process(g, x)
  \/ \E g \in SeqGuids : CompleteForm(g)
  \/ \E g \in SeqGuids : StartConversation(g)
  \/ \E g \in SeqGuids : Reset(g)

Spec == Init /\ [][Next]_vars

(* ------------------------------------ summaries and what callers do *)
\* the texts of the process_form_response calls of SpecExt
ExtTexts == { <<" ", " ">>, <<"a">> }
\* a text a caller writes into a summary it was given
CallerText == <<"z">>
\* an entry a caller appends to the history it was given
CallerEntry == [type |-> "caller_note"]
\* the field ids a caller passes to set_field_value: one of FormData, one not
CallerFieldIds == {"email", "phone"}
\* the keys of summary["form_data"] a caller assigns to
CallerKeys == {"name", "email"}

\* process_form_response within the bound of SpecExt, on the history and on
\* the number of accepted inputs
ProcessExt(chat_guid, message_text) ==
  /\ Process(chat_guid, message_text)
  /\ TotalHist(heap') <= MaxExtHist
  /\ Len(accepted'[chat_guid]) <= MaxExtHist

Summarize(chat_guid) ==
  LET r == get_flow_summary(Manager, chat_guid)
  IN  /\ Install(r.m)
      /\ summary' = r.summary
      /\ last' = [op |-> "get_flow_summary", chat_guid |-> chat_guid,
                  created |-> flows[chat_guid] = NoRef]
      /\ UNCHANGED << accepted, wasReset, run, threadVars >>

\* the caller assigns summary["form_data"][field_id] = CallerText
SummarySetValue(field_id) ==
  /\ summary # NoSummary
  /\ summary' = [summary EXCEPT !.form_data[field_id] = CallerText]
  /\ last' = [op |-> "summary_edit", chat_guid |-> summary.chat_guid]
  /\ UNCHANGED << flows, heap, accepted, wasReset, run, threadVars >>

\* the caller calls summary["conversation_history"].append(CallerEntry):
\* the list is the flow's own
SummaryAppendHistory ==
  /\ summary # NoSummary
  /\ TotalHist(heap) < MaxExtHist
  /\ heap' = [heap EXCEPT ![summary.conversation_history].conversation_history =
                Append(@, CallerEntry)]
  /\ last' = [op |-> "summary_edit", chat_guid |-> summary.chat_guid]
  /\ UNCHANGED << flows, summary, accepted, wasReset, run, threadVars >>

\* a caller holding the flow calls flow.set_field_value(field_id, CallerText);
\* the method has no raise statement
SetFieldValue(chat_guid, field_id) ==
  /\ flows[chat_guid] # NoRef
  /\ heap' = [heap EXCEPT ![flows[chat_guid]] =
                set_field_value(@, field_id, CallerText)]
  /\ last' = [op |-> "set_field_value", chat_guid |-> chat_guid,
              field_id |-> field_id, raised |-> FALSE]
  /\ summary' = NoSummary
  /\ run' = [run EXCEPT ![chat_guid] = NoRun]
  /\ UNCHANGED << flows, accepted, wasReset, threadVars >>

NextExt ==
  \/ \E g \in SeqGuids : GetOrCreate(g)
  \/ \E g \in SeqGuids : StartForm(g)
  \/ \E g \in SeqGuids, x \in ExtTexts : ProcessExt(g, x)
  \/ \E g \in SeqGuids : CompleteForm(g)
  \/ \E g \in SeqGuids : StartConversation(g)
  \/ \E g \in SeqGuids : Reset(g)
  \/ \E g \in SeqGuids : Summarize(g)
  \/ \E f \in CallerKeys : SummarySetValue(f)
  \/ SummaryAppendHistory
  \/ \E g \in SeqGuids, f \in CallerFieldIds : SetFieldValue(g, f)

SpecExt == Init /\ [][NextExt]_vars

(* ------------------------------------------------------- two sessions *)
\* process_form_response within the bound of SpecPair on the history
ProcessPair(chat_guid, message_text) ==
  /\ Process(chat_guid, message_text)
  /\ TotalHist(heap') <= MaxPairHist

\* every call of the manager, on either of two chats
NextPair ==
  \/ \E g \in ChatGuids : GetOrCreate(g)
  \/ \E g \in ChatGuids : StartForm(g)
  \/ \E g \in ChatGuids, x \in ExtTexts : ProcessPair(g, x)
  \/ \E g \in ChatGuids : CompleteForm(g)
  \/ \E g \in ChatGuids : StartConversation(g)
  \/ \E g \in ChatGuids : Reset(g)
  \/ \E g \in ChatGuids : Summarize(g)

SpecPair == Init /\ [][NextPair]_vars

(* ------------------------------------------------------ a driven form *)
\* start_form_flow on a flow that is in IDLE (a chat_guid not seen yet gets
\* its flow constructed in IDLE by the call)
DrivenStart(chat_guid) ==
  /\ flows[chat_guid] # NoRef => heap[flows[chat_guid]].state = IDLE
  /\ StartForm(chat_guid)

\* one start_form_flow on an IDLE flow, then process_form_response calls only
NextDriven ==
  \/ \E g \in SeqGuids : DrivenStart(g)
  \/ \E g \in SeqGuids, x \in Texts : Process(g, x)

SpecDriven == Init /\ [][NextDriven]_vars

(* ------------------------------------------- a form fed with inputs *)
\* from some FILLING_FORM state on, the only calls are process_form_response
\* calls with a non-blank text; last.fed flips with each of them
Feeding == "fed" \in DOMAIN last

\* process_form_response(chat_guid, message_text) as one of those calls
Feed(chat_guid, message_text) ==
  LET r == process_form_response(Manager, chat_guid, message_text)
      pre == Registered(Manager, chat_guid)
      accepts == pre.state = FILLING_FORM /\ pre.current_field # NoField
  IN  /\ NonBlank(message_text)
      /\ pre # NoFlow
      /\ ~Feeding => pre.state = FILLING_FORM
      /\ Install(r.m)
      /\ last' = [op |-> "process_form_response", chat_guid |-> chat_guid,
                  complete |-> r.complete,
                  fed |-> IF Feeding THEN ~last.fed ELSE TRUE]
      /\ accepted' = IF accepts
                     THEN [accepted EXCEPT ![chat_guid] =
                             Append(@, [field |-> pre.current_field,
                                        text |-> message_text])]
                     ELSE accepted
      /\ run' = [run EXCEPT ![chat_guid] = NoRun]
      /\ summary' = NoSummary
      /\ UNCHANGED << wasReset, threadVars >>

\* before that: start_form_flow on an IDLE flow and process_form_response
\* with any text
NextFeed ==
  \/ \E g \in SeqGuids : ~Feeding /\ DrivenStart(g)
  \/ \E g \in SeqGuids, x \in Texts : ~Feeding /\ Process(g, x)
  \/ \E g \in SeqGuids, x \in Texts : Feed(g, x)

\* the non-blank inputs keep coming
SpecFeed ==
  Init /\ [][NextFeed]_vars
       /\ WF_vars(\E g \in SeqGuids, x \in Texts : Feed(g, x))

(* ------------------------------------------------- the webhook driver *)
\* str.lower() on the letters A..Z
UpperCase ==
  << "A", "B", "C", "D", "E", "F", "G", "H", "I", "J", "K", "L", "M", "N", "O", "P", "Q", "R", "S", "T", "U", "V", "W", "X", "Y", "Z" >>
LowerCase ==
  << "a", "b", "c", "d", "e", "f", "g", "h", "i", "j", "k", "l", "m", "n", "o", "p", "q", "r", "s", "t", "u", "v", "w", "x", "y", "z" >>
lower_char(c) ==
  IF \E i \in 1..Len(UpperCase) : UpperCase[i] = c
  THEN LowerCase[CHOOSE i \in 1..Len(UpperCase) : UpperCase[i] = c]
  ELSE c
lower(s) == [i \in 1..Len(s) |-> lower_char(s[i])]

\* Python's "sub in s" on strings
Contains(sub, s) ==
  \E i \in 0..(Len(s) - Len(sub)) : SubSeq(s, i + 1, i + Len(sub)) = sub

\* handle_country_selection's country_map, in the order of its items
country_map ==
  << [code |-> << "1" >>, name |-> << "U", "n", "i", "t", "e", "d", " ", "S", "t", "a", "t", "e", "s" >>],
     [code |-> << "2" >>, name |-> << "C", "a", "n", "a", "d", "a" >>],
     [code |-> << "3" >>, name |-> << "U", "n", "i", "t", "e", "d", " ", "K", "i", "n", "g", "d", "o", "m" >>],
     [code |-> << "4" >>, name |-> << "A", "u", "s", "t", "r", "a", "l", "i", "a" >>],
     [code |-> << "5" >>, name |-> << "G", "e", "r", "m", "a", "n", "y" >>],
     [code |-> << "6" >>, name |-> << "F", "r", "a", "n", "c", "e" >>],
     [code |-> << "7" >>, name |-> << "J", "a", "p", "a", "n" >>],
     [code |-> << "8" >>, name |-> << "O", "t", "h", "e", "r" >>] >>

\* the keywords that start the form from IDLE
keywords ==
  << << "f", "o", "r", "m" >>,
     << "r", "e", "g", "i", "s", "t", "e", "r" >>,
     << "s", "i", "g", "n", " ", "u", "p" >>,
     << "i", "n", "f", "o" >>,
     << "i", "n", "f", "o", "r", "m", "a", "t", "i", "o", "n" >> >>

\* the country the loop over country_map.items() returns for text_clean:
\* the first whose lowered name is in the lowered text
FirstNamed(text_clean, k) ==
  /\ Contains(lower(country_map[k].name), lower(text_clean))
  /\ \A j \in 1..(k - 1) :
       ~Contains(lower(country_map[j].name), lower(text_clean))

\* returns the country's name, or None
handle_country_selection(message_text) ==
  LET text_clean == strip(message_text)
  IN  IF \E k \in 1..Len(country_map) : country_map[k].code = text_clean
      THEN country_map[CHOOSE k \in 1..Len(country_map) :
                         country_map[k].code = text_clean].name
      ELSE IF \E k \in 1..Len(country_map) : FirstNamed(text_clean, k)
      THEN country_map[CHOOSE k \in 1..Len(country_map) :
                         FirstNamed(text_clean, k)].name
      ELSE None

\* faulty variant: complete_form_flow left out
handle_form_flow_nocomplete(m, chat_guid, message_text) ==
  process_form_response(m, chat_guid, message_text).m
\* the manager after the call; the reply it returns is sent out and not kept
handle_form_flow(m, chat_guid, message_text) ==
  LET r == process_form_response(m, chat_guid, message_text)
  IN  IF r.complete THEN complete_form_flow(r.m, chat_guid) ELSE r.m

\* faulty variant: the reply itself passed on, whatever it is
process_country_field_raw(m, chat_guid, message_text) ==
  LET r == process_form_response(m, chat_guid, message_text)
  IN  IF r.complete THEN complete_form_flow(r.m, chat_guid) ELSE r.m
\* the manager after the call; the reply it returns is sent out and not kept
process_country_field(m, chat_guid, message_text) ==
  LET country == handle_country_selection(message_text)
  IN  IF Truthy(country)
      THEN LET r == process_form_response(m, chat_guid, country)
           IN  IF r.complete THEN complete_form_flow(r.m, chat_guid) ELSE r.m
      ELSE m

\* webhook() on a "new-message" event that is not from the account itself
\* (any other event is answered "OK" with no call on the manager)
webhook(m, chat_guid, text) ==
  LET m1 == get_or_create_flow(m, chat_guid)
      flow == FlowOf(m1, chat_guid)
  IN  IF flow.state = IDLE
      THEN IF \E k \in 1..Len(keywords) : Contains(keywords[k], lower(text))
           THEN start_form_flow(m1, chat_guid)
           ELSE m1
      ELSE IF flow.state = FILLING_FORM
      THEN IF flow.current_field = "country"
           THEN process_country_field(m1, chat_guid, text)
           ELSE handle_form_flow(m1, chat_guid, text)
      ELSE m1

\* the texts of the inbound messages
HookTexts ==
  { << "f", "o", "r", "m" >>,
    << " ", "2", " " >>,
    << "9" >>,
    << "a", "n", "o", "t", "h", "e", "r" >> }

\* one POST / handled from its first statement to its last
Webhook(chat_guid, text) ==
  LET m2 == webhook(Manager, chat_guid, text)
  IN  /\ TotalHist(m2.heap) <= MaxHookHist
      /\ Install(m2)
      /\ last' = [op |-> "webhook", chat_guid |-> chat_guid, text |-> text]
      /\ summary' = NoSummary
      /\ run' = [run EXCEPT ![chat_guid] = NoRun]
      /\ UNCHANGED << accepted, wasReset, threadVars >>

\* the endpoints of the server that change a flow, one request at a time:
\* POST /, POST /flow/<chat_guid>/start-form and POST /flow/<chat_guid>/reset
NextHook ==
  \/ \E g \in SeqGuids, x \in HookTexts : Webhook(g, x)
  \/ \E g \in SeqGuids : StartForm(g)
  \/ \E g \in SeqGuids : Reset(g)

SpecHook == Init /\ [][NextHook]_vars

(* ------------------------------------------------- calls made by threads *)
(* The server handles each request on its own thread and FlowManager has  *)
(* no lock, so calls on one manager interleave between statements.  A     *)
(* thread makes one call, get_or_create_flow, process_form_response or    *)
(* get_flow_summary, one statement per step; advance_to_next_field is     *)
(* taken as one step, and so is each entry of the summary's dict display. *)
SetPc(t, pc) == tpc' = [tpc EXCEPT ![t] = pc]

\* start_form_flow("c1") before any thread starts
ConcStart ==
  /\ \A t \in Threads : tpc[t] = "idle"
  /\ heap = <<>>
  /\ Install(start_form_flow(Manager, "c1"))
  /\ UNCHANGED << last, accepted, wasReset, run, summary, threadVars >>

\* record r with field k set to v
With(r, k, v) == [x \in DOMAIN r \cup {k} |-> IF x = k THEN v ELSE r[x]]

CallGetOrCreate(t, chat_guid) ==
  /\ tpc[t] = "idle"
  /\ SetPc(t, "g_check")
  /\ tloc' = [tloc EXCEPT ![t] =
                [op |-> "get_or_create_flow", chat_guid |-> chat_guid]]
  /\ UNCHANGED seqVars

CallProcess(t, chat_guid, message_text) ==
  /\ tpc[t] = "idle"
  /\ SetPc(t, "g_check")
  /\ tloc' = [tloc EXCEPT ![t] =
                [op |-> "process_form_response", chat_guid |-> chat_guid,
                 text |-> message_text]]
  /\ UNCHANGED seqVars

CallSummary(t, chat_guid) ==
  /\ tpc[t] = "idle"
  /\ SetPc(t, "g_check")
  /\ tloc' = [tloc EXCEPT ![t] =
                [op |-> "get_flow_summary", chat_guid |-> chat_guid]]
  /\ UNCHANGED seqVars

\* get_or_create_flow: if chat_guid not in self.flows
GCheck(t) ==
  /\ tpc[t] = "g_check"
  /\ SetPc(t, IF flows[tloc[t].chat_guid] = NoRef THEN "g_store" ELSE "g_ret")
  /\ UNCHANGED << seqVars, tloc >>

\* get_or_create_flow: self.flows[chat_guid] = CustomerFlow(chat_guid=chat_guid)
GStore(t) ==
  /\ tpc[t] = "g_store"
  /\ heap' = Append(heap, CustomerFlow(tloc[t].chat_guid))
  /\ flows' = [flows EXCEPT ![tloc[t].chat_guid] = Len(heap) + 1]
  /\ SetPc(t, "g_ret")
  /\ UNCHANGED << last, accepted, wasReset, run, summary, tloc >>

\* get_or_create_flow: return self.flows[chat_guid]
GRet(t) ==
  /\ tpc[t] = "g_ret"
  /\ tloc' = [tloc EXCEPT ![t] = With(@, "flow", flows[tloc[t].chat_guid])]
  /\ SetPc(t, CASE tloc[t].op = "get_or_create_flow" -> "done"
                 [] tloc[t].op = "process_form_response" -> "p_state"
                 [] tloc[t].op = "get_flow_summary" -> "s_state")
  /\ UNCHANGED seqVars

Return(t, complete) ==
  /\ SetPc(t, "done")
  /\ tloc' = [tloc EXCEPT ![t] = With(@, "complete", complete)]

\* process_form_response: if flow.state != FlowState.FILLING_FORM
PState(t) ==
  /\ tpc[t] = "p_state"
  /\ IF heap[tloc[t].flow].state # FILLING_FORM
     THEN Return(t, FALSE)
     ELSE SetPc(t, "p_cur") /\ UNCHANGED tloc
  /\ UNCHANGED seqVars

\* process_form_response: current_field = flow.current_field; if not current_field
PCur(t) ==
  /\ tpc[t] = "p_cur"
  /\ IF heap[tloc[t].flow].current_field = NoField
     THEN Return(t, FALSE)
     ELSE /\ SetPc(t, "p_set")
          /\ tloc' = [tloc EXCEPT ![t] =
                        With(@, "current_field", heap[tloc[t].flow].current_field)]
  /\ UNCHANGED seqVars

\* process_form_response: flow.set_field_value(current_field, message_text.strip())
PSet(t) ==
  /\ tpc[t] = "p_set"
  /\ heap' = [heap EXCEPT ![tloc[t].flow] =
                set_field_value(@, tloc[t].current_field, strip(tloc[t].text))]
  /\ SetPc(t, "p_hist")
  /\ UNCHANGED << flows, last, accepted, wasReset, run, summary, tloc >>

\* process_form_response: flow.conversation_history.append({...})
PHist(t) ==
  /\ tpc[t] = "p_hist"
  /\ heap' = [heap EXCEPT ![tloc[t].flow].conversation_history =
                Append(@, HistoryEntry(tloc[t].current_field, strip(tloc[t].text)))]
  /\ SetPc(t, "p_adv")
  /\ UNCHANGED << flows, last, accepted, wasReset, run, summary, tloc >>

\* process_form_response: flow.advance_to_next_field()
PAdv(t) ==
  /\ tpc[t] = "p_adv"
  /\ heap' = [heap EXCEPT ![tloc[t].flow] = advance_to_next_field(@)]
  /\ SetPc(t, "p_complete")
  /\ UNCHANGED << flows, last, accepted, wasReset, run, summary, tloc >>

\* process_form_response: if flow.form_data.is_complete()
PComplete(t) ==
  /\ tpc[t] = "p_complete"
  /\ IF is_complete(heap[tloc[t].flow].form_data)
     THEN /\ heap' = [heap EXCEPT ![tloc[t].flow].state = FORM_COMPLETE]
          /\ Return(t, TRUE)
     ELSE /\ UNCHANGED heap
          /\ Return(t, FALSE)
  /\ UNCHANGED << flows, last, accepted, wasReset, run, summary >>

\* get_flow_summary: "state": flow.state.value
SState(t) ==
  /\ tpc[t] = "s_state"
  /\ tloc' = [tloc EXCEPT ![t] = With(@, "state", heap[tloc[t].flow].state)]
  /\ SetPc(t, "s_form")
  /\ UNCHANGED seqVars

\* get_flow_summary: "form_data": flow.form_data.to_dict()
SForm(t) ==
  /\ tpc[t] = "s_form"
  /\ tloc' = [tloc EXCEPT ![t] =
                With(@, "form_data", to_dict(heap[tloc[t].flow].form_data))]
  /\ SetPc(t, "s_complete")
  /\ UNCHANGED seqVars

\* get_flow_summary: "is_form_complete": flow.form_data.is_complete()
SComplete(t) ==
  /\ tpc[t] = "s_complete"
  /\ tloc' = [tloc EXCEPT ![t] =
                With(@, "is_form_complete",
                     is_complete(heap[tloc[t].flow].form_data))]
  /\ SetPc(t, "s_hist")
  /\ UNCHANGED seqVars

\* get_flow_summary: "conversation_history": flow.conversation_history, and
\* return; the entries are those the list holds when the dict is returned
SHist(t) ==
  /\ tpc[t] = "s_hist"
  /\ tloc' = [tloc EXCEPT ![t] =
                With(@, "conversation_history",
                     heap[tloc[t].flow].conversation_history)]
  /\ SetPc(t, "done")
  /\ UNCHANGED seqVars

NextConc ==
  \/ ConcStart
  \/ \E t \in Threads, g \in ChatGuids : CallSummary(t, g)
  \/ \E t \in Threads : SState(t)
  \/ \E t \in Threads : SForm(t)
  \/ \E t \in Threads : SComplete(t)
  \/ \E t \in Threads : SHist(t)
  \/ \E t \in Threads, g \in ChatGuids : CallGetOrCreate(t, g)
  \/ \E t \in Threads, g \in ChatGuids, x \in Texts : CallProcess(t, g, x)
  \/ \E t \in Threads : GCheck(t)
  \/ \E t \in Threads : GStore(t)
  \/ \E t \in Threads : GRet(t)
  \/ \E t \in Threads : PState(t)
  \/ \E t \in Threads : PCur(t)
  \/ \E t \in Threads : PSet(t)
  \/ \E t \in Threads : PHist(t)
  \/ \E t \in Threads : PAdv(t)
  \/ \E t \in Threads : PComplete(t)

SpecConc == Init /\ [][NextConc]_vars

(* ================================================================ claims *)
\* the registered flow of chat_guid g in the current state
Flow(g) == heap[flows[g]]

\* v is raw without its leading and trailing whitespace
IsTrimOf(v, raw) ==
  \E i \in 1..(Len(raw) + 1), j \in 0..Len(raw) :
    /\ v = SubSeq(raw, i, j)
    /\ \A k \in 1..(i - 1) : IsSpace(raw[k])
    /\ \A k \in (j + 1)..Len(raw) : IsSpace(raw[k])
    /\ v # <<>> => ~IsSpace(v[1]) /\ ~IsSpace(v[Len(v)])

LastProcess(g) ==
  /\ last.op = "process_form_response"
  /\ last.chat_guid = g
  /\ flows[g] # NoRef

\* C1 as stated: after start_form_flow, in a run of accepted non-blank inputs
\* with no other call in between, process_form_response returns complete=true
\* with state FORM_COMPLETE on exactly the 4th input and complete=false with
\* state FILLING_FORM on every earlier one.
\* (The flow is one that was only ever given non-blank texts.)
C1_CompleteOnFourth ==
  \A g \in SeqGuids :
    ( /\ LastProcess(g) /\ run[g].n >= 1 /\ ~run[g].blank
      /\ \A k \in 1..Len(accepted[g]) : NonBlank(accepted[g][k].text) ) =>
      IF run[g].n = Len(field_order)
      THEN last.complete /\ Flow(g).state = FORM_COMPLETE
      ELSE ~last.complete /\ Flow(g).state = FILLING_FORM

\* C1 amended: the same, for a start_form_flow applied to a flow whose form
\* values are all empty (a new or reset flow).
C1_CompleteOnFourthFromEmpty ==
  \A g \in SeqGuids :
    LastProcess(g) /\ run[g].n >= 1 /\ ~run[g].blank /\ run[g].clean =>
      IF run[g].n = Len(field_order)
      THEN last.complete /\ Flow(g).state = FORM_COMPLETE
      ELSE ~last.complete /\ Flow(g).state = FILLING_FORM

C1_Witness ==
  \E g \in SeqGuids :
    /\ LastProcess(g) /\ run[g].clean /\ ~run[g].blank
    /\ run[g].n = Len(field_order)
    /\ last.complete /\ Flow(g).state = FORM_COMPLETE

\* C2: for a flow with empty form values started with start_form_flow, the
\* i-th accepted input is stored, trimmed, in the i-th field of field_order;
\* after the 4th input the form holds exactly the four trimmed inputs in order.
C2_StoredTrimmedInOrder ==
  \A g \in SeqGuids :
    LastProcess(g) /\ run[g].n >= 1 /\ run[g].clean =>
      LET n == run[g].n
          base == Len(accepted[g]) - n
      IN  /\ base >= 0
          /\ \A i \in 1..n :
               IsTrimOf(Flow(g).form_data[field_order[i]], accepted[g][base + i].text)
          /\ \A i \in (n + 1)..Len(field_order) :
               ~Truthy(Flow(g).form_data[field_order[i]])

C2_Witness ==
  \E g \in SeqGuids :
    /\ LastProcess(g) /\ run[g].clean /\ run[g].n = Len(field_order)
    /\ Flow(g).form_data.name = <<"a">>
    /\ Flow(g).form_data.company = <<"b", " ", "a">>
    /\ accepted[g][Len(accepted[g]) - 2].text = <<" ", "b", " ", "a", " ">>

\* C3 as stated: a process_form_response call in FILLING_FORM whose text is
\* blank never advances field_index, never changes current_field and never
\* changes a form value.
C3_BlankInputIgnored ==
  [][ \A g \in SeqGuids, x \in Texts :
        ( /\ ~NonBlank(x)
          /\ flows[g] # NoRef
          /\ heap[flows[g]].state = FILLING_FORM
          /\ Process(g, x) )
        => /\ heap'[flows'[g]].field_index = heap[flows[g]].field_index
           /\ heap'[flows'[g]].current_field = heap[flows[g]].current_field
           /\ heap'[flows'[g]].form_data = heap[flows[g]].form_data ]_vars

NThreads == Cardinality(Threads)

AllDone(op, g) ==
  \A t \in Threads :
    tpc[t] = "done" /\ tloc[t].op = op /\ tloc[t].chat_guid = g

\* the fields of a form that hold a non-empty value
Filled(form_data) == {f \in DOMAIN form_data : Truthy(form_data[f])}

\* C4 as stated: N concurrent process_form_response calls on one flow in
\* FILLING_FORM, each with a distinct non-blank text, act like some serial
\* order of the calls: N fields filled, field_index advanced N times, N
\* history entries, every text stored in a field of its own.
C4_ConcurrentProcessSerial ==
  ( /\ AllDone("process_form_response", "c1")
    /\ flows["c1"] # NoRef
    /\ heap[flows["c1"]].state # IDLE
    /\ \A t \in Threads : NonBlank(tloc[t].text)
    /\ \A t, u \in Threads : t # u => tloc[t].text # tloc[u].text )
  => LET flow == heap[flows["c1"]]
     IN  /\ Cardinality(Filled(flow.form_data)) = NThreads
         /\ flow.field_index = NThreads
         /\ Len(flow.conversation_history) = NThreads
         /\ \A t \in Threads :
              \E f \in DOMAIN flow.form_data :
                IsTrimOf(flow.form_data[f], tloc[t].text)

\* C5 as stated: concurrent get_or_create_flow calls for one unseen
\* chat_guid construct one CustomerFlow, and every caller gets the flow that
\* stays registered under the chat_guid.
C5_ConcurrentCreateOnce ==
  \A g \in ChatGuids :
    ( /\ AllDone("get_or_create_flow", g)
      /\ \A i \in 1..Len(heap) : heap[i].chat_guid = g )
    => /\ Len(heap) = 1
       /\ \A t \in Threads : tloc[t].flow = flows[g]

\* C6: reset_flow on a registered flow leaves it with state IDLE, every form
\* value None, field_index 0 and no current field, whatever it was before.
C6_ResetToInitial ==
  \A g \in SeqGuids :
    last.op = "reset_flow" /\ last.chat_guid = g /\ flows[g] # NoRef =>
      /\ Flow(g).state = IDLE
      /\ Flow(g).form_data = FormData
      /\ Flow(g).field_index = 0
      /\ Flow(g).current_field = NoField

\* reset_flow has acted on a flow that had completed its form
C6_Witness ==
  \E g \in SeqGuids :
    /\ last.op = "reset_flow" /\ last.chat_guid = g /\ flows[g] # NoRef
    /\ Len(Flow(g).conversation_history) >= Len(field_order)
    /\ Flow(g).conversation_history[Len(field_order)].field = "email"
    /\ Flow(g).state = IDLE

\* C7 as stated: right after reset_flow on a registered flow its
\* conversation_history is empty.
C7_ResetClearsHistory ==
  \A g \in SeqGuids :
    last.op = "reset_flow" /\ last.chat_guid = g /\ flows[g] # NoRef =>
      Flow(g).conversation_history = <<>>

\* C8: for a flow that was never reset, conversation_history has one entry
\* per accepted input, and the k-th entry holds the field that was current
\* and the trimmed text of the k-th accepted input.
C8_HistoryMatchesAccepted ==
  \A g \in SeqGuids :
    ~wasReset[g] =>
      IF flows[g] = NoRef
      THEN accepted[g] = <<>>
      ELSE LET h == Flow(g).conversation_history
           IN  /\ Len(h) = Len(accepted[g])
               /\ \A k \in 1..Len(h) :
                    /\ h[k].field = accepted[g][k].field
                    /\ IsTrimOf(h[k].value, accepted[g][k].text)

\* a never-reset flow restarted after its fourth input, then given a fifth
C8_Witness ==
  \E g \in SeqGuids :
    /\ ~wasReset[g] /\ flows[g] # NoRef
    /\ Len(accepted[g]) = Len(field_order) + 1
    /\ accepted[g][Len(field_order) + 1].text = <<" ", "b", " ", "a", " ">>
    /\ Flow(g).conversation_history[Len(field_order) + 1]
         = HistoryEntry("name", <<"b", " ", "a">>)

\* C9: process_form_response on a registered flow whose state is not
\* FILLING_FORM returns complete=false and changes nothing of the flow.
C9_ProcessOutsideFillingNoOp ==
  [][ \A g \in SeqGuids, x \in Texts :
        ( /\ flows[g] # NoRef
          /\ heap[flows[g]].state # FILLING_FORM
          /\ Process(g, x) )
        => /\ last'.complete = FALSE
           /\ flows' = flows
           /\ heap' = heap ]_vars

\* process_form_response has just returned on a flow that awaits an agent
\* with a field still current
C9_Witness ==
  \E g \in SeqGuids :
    /\ LastProcess(g) /\ ~last.complete
    /\ Flow(g).state = AWAITING_AGENT
    /\ Flow(g).current_field = "company"

\* C10 as stated: every field before field_index, and the last field once
\* current_field is None after advancing, holds a non-empty value.
C10_NoEmptyFieldPassed ==
  \A g \in SeqGuids :
    flows[g] # NoRef =>
      /\ \A i \in 1..Flow(g).field_index :
           Truthy(Flow(g).form_data[field_order[i]])
      /\ ( Flow(g).field_index = Len(field_order) - 1
           /\ Flow(g).current_field = NoField )
         => Truthy(Flow(g).form_data[field_order[Len(field_order)]])

\* the field_index of g's flow got smaller in this step
CursorDecreases(g) ==
  /\ flows[g] # NoRef
  /\ flows'[g] = flows[g]
  /\ heap'[flows[g]].field_index < heap[flows[g]].field_index

\* C11 as stated: over any sequence of calls field_index never gets smaller
\* except as the effect of reset_flow.
C11_CursorMonotoneButReset ==
  [][ \A g \in SeqGuids : CursorDecreases(g) => last'.op = "reset_flow" ]_vars

\* C11 amended: field_index never gets smaller except as the effect of
\* reset_flow or of start_form_flow, which both set it to 0.
C11_CursorMonotoneButResetOrStart ==
  [][ \A g \in SeqGuids :
        CursorDecreases(g) =>
          /\ last'.op \in {"reset_flow", "start_form_flow"}
          /\ heap'[flows[g]].field_index = 0 ]_vars

\* start_form_flow has set back the cursor of a never-reset flow whose last
\* accepted input was for company
C11_Witness ==
  \E g \in SeqGuids :
    /\ flows[g] # NoRef /\ ~wasReset[g]
    /\ last.op = "start_form_flow"
    /\ Flow(g).field_index = 0
    /\ Len(Flow(g).conversation_history) = 2
    /\ Flow(g).conversation_history[2].field = "company"

(* ------------------------------------------------------------- C12 *)
\* C12 as stated: the summary returned by get_flow_summary is an independent
\* copy: a caller's assignment in the returned form_data or append to the
\* returned conversation_history never changes a flow of the manager.
C12_SummaryIsIndependentCopy ==
  [][ last'.op = "summary_edit" => heap' = heap ]_vars

(* ------------------------------------------------------------- C13 *)
\* what get_flow_summary returns for a flow that no other call touches
SummaryOf(flow) ==
  [ state |-> flow.state, form_data |-> to_dict(flow.form_data),
    is_form_complete |-> is_complete(flow.form_data),
    conversation_history |-> flow.conversation_history ]

\* what thread t's get_flow_summary returned
Returned(t) ==
  [ state |-> tloc[t].state, form_data |-> tloc[t].form_data,
    is_form_complete |-> tloc[t].is_form_complete,
    conversation_history |-> tloc[t].conversation_history ]

\* C13 as stated: a get_flow_summary concurrent with a
\* process_form_response on the same started flow returns the state, values,
\* completeness and history of the flow as it was before the whole
\* process_form_response or as it was after it, never a mix.
C13_SummaryNotTorn ==
  \A s, p \in Threads :
    ( /\ tpc[s] = "done" /\ tloc[s].op = "get_flow_summary"
      /\ tpc[p] = "done" /\ tloc[p].op = "process_form_response"
      /\ tloc[s].chat_guid = "c1" /\ tloc[p].chat_guid = "c1"
      /\ heap[flows["c1"]].state # IDLE )
    => LET before == start_form_flow(FlowManager, "c1")
           after == process_form_response(before, "c1", tloc[p].text).m
       IN  Returned(s) \in { SummaryOf(FlowOf(before, "c1")),
                             SummaryOf(FlowOf(after, "c1")) }

(* ------------------------------------------------------------- C14 *)
\* the state of g's flow before the step, IDLE for a chat_guid not yet seen
\* (the state its flow is constructed with)
StateBefore(g) == IF flows[g] = NoRef THEN IDLE ELSE heap[flows[g]].state

\* g's flow enters state st in this step
Enters(g, st) ==
  /\ flows'[g] # NoRef
  /\ heap'[flows'[g]].state = st
  /\ StateBefore(g) # st

\* C14 as stated: a flow's state becomes AWAITING_AGENT only through
\* complete_form_flow applied while the state is FORM_COMPLETE, and then
\* every field of its form holds a non-empty value.
C14_AwaitingOnlyFromFormComplete ==
  [][ \A g \in SeqGuids :
        Enters(g, AWAITING_AGENT) =>
          /\ last'.op = "complete_form_flow"
          /\ StateBefore(g) = FORM_COMPLETE
          /\ \A f \in DOMAIN FormData :
               Truthy(heap'[flows'[g]].form_data[f]) ]_vars

(* ------------------------------------------------------------- C15 *)
\* g's registered flow changes its state in this step
StateChanges(g) ==
  /\ flows[g] # NoRef
  /\ heap'[flows'[g]].state # heap[flows[g]].state

\* C15 as stated: the state of a flow in IN_CONVERSATION is changed by
\* reset_flow only, and the state of a flow in AWAITING_AGENT by
\* start_conversation or reset_flow only.
C15_TerminalStates ==
  [][ \A g \in SeqGuids :
        StateChanges(g) =>
          /\ heap[flows[g]].state = IN_CONVERSATION => last'.op = "reset_flow"
          /\ heap[flows[g]].state = AWAITING_AGENT =>
               last'.op \in {"start_conversation", "reset_flow"} ]_vars

(* ------------------------------------------------------------- C16 *)
\* every field of the form holds a non-empty value
AllFilled(form_data) == Filled(form_data) = DOMAIN FormData

\* C16 as stated: the completeness returned by every process_form_response
\* and every get_flow_summary is true exactly when all four fields of the
\* flow hold a non-empty value, whatever its state and cursor are.
C16_CompleteIffAllFilled ==
  [][ \A g \in SeqGuids :
        /\ (last'.op = "process_form_response" /\ last'.chat_guid = g)
             => (last'.complete <=> AllFilled(heap'[flows'[g]].form_data))
        /\ (last'.op = "get_flow_summary" /\ last'.chat_guid = g)
             => (summary'.is_form_complete
                   <=> AllFilled(heap'[flows'[g]].form_data)) ]_vars

\* C16 amended: the completeness returned by get_flow_summary, and by a
\* process_form_response that accepts its input, is true exactly when all
\* four fields hold a non-empty value, whatever the state and cursor are; a
\* process_form_response that accepts nothing returns false.
C16_CompleteIffAllFilledWhenAccepted ==
  [][ \A g \in SeqGuids :
        /\ (last'.op = "process_form_response" /\ last'.chat_guid = g)
             => (last'.complete <=>
                   /\ accepted'[g] # accepted[g]
                   /\ AllFilled(heap'[flows'[g]].form_data))
        /\ (last'.op = "get_flow_summary" /\ last'.chat_guid = g)
             => (summary'.is_form_complete
                   <=> AllFilled(heap'[flows'[g]].form_data)) ]_vars

\* get_flow_summary has returned is_form_complete = true for a flow that
\* start_form_flow took back to FILLING_FORM with its cursor at 0
C16_Witness ==
  \E g \in SeqGuids :
    /\ last.op = "get_flow_summary" /\ last.chat_guid = g
    /\ summary.is_form_complete
    /\ Flow(g).state = FILLING_FORM
    /\ Flow(g).field_index = 0

(* ------------------------------------------------------------- C17 *)
\* C17 as stated: when start_form_flow is applied to an IDLE flow and only
\* process_form_response calls follow, a flow in FILLING_FORM always has a
\* current field.
C17_FillingHasCurrentField ==
  \A g \in SeqGuids :
    flows[g] # NoRef /\ Flow(g).state = FILLING_FORM
      => Flow(g).current_field # NoField

(* ------------------------------------------------------------- C18 *)
\* C18: get_or_create_flow on a chat_guid not seen before registers a new
\* flow with state IDLE, every value None, field_index 0 and an empty
\* history, and touches no other flow; on a chat_guid seen before it returns
\* the registered flow and changes nothing.
C18_GetOrCreateIdempotent ==
  [][ \A g \in SeqGuids :
        (last'.op = "get_or_create_flow" /\ last'.chat_guid = g) =>
          IF flows[g] = NoRef
          THEN /\ flows'[g] \in 1..Len(heap') /\ flows'[g] \notin 1..Len(heap)
               /\ \A h \in ChatGuids \ {g} : flows'[h] = flows[h]
               /\ \A i \in 1..Len(heap) : heap'[i] = heap[i]
               /\ heap'[flows'[g]].chat_guid = g
               /\ heap'[flows'[g]].state = IDLE
               /\ \A f \in DOMAIN FormData :
                    heap'[flows'[g]].form_data[f] = None
               /\ heap'[flows'[g]].field_index = 0
               /\ heap'[flows'[g]].conversation_history = <<>>
          ELSE flows' = flows /\ heap' = heap ]_vars

\* get_or_create_flow has been called on a registered flow that has left
\* IDLE and holds accepted inputs
C18_Witness ==
  \E g \in SeqGuids :
    /\ last.op = "get_or_create_flow" /\ last.chat_guid = g
    /\ Flow(g).state = FORM_COMPLETE
    /\ Len(Flow(g).conversation_history) >= Len(field_order)

(* ------------------------------------------------------------- C19 *)
\* C19 as stated: set_field_value with a field_id that is no field of
\* FormData fails with an error; it is never silently ignored.
C19_UnknownFieldRaises ==
  (last.op = "set_field_value" /\ last.field_id \notin DOMAIN FormData)
    => last.raised

(* ------------------------------------------------------------- C20 *)
\* C20: get_flow_summary on a chat_guid not seen before registers a flow as
\* get_or_create_flow does and returns state IDLE, every value None,
\* is_form_complete false and an empty history.
C20_SummaryOfUnseen ==
  \A g \in SeqGuids :
    (last.op = "get_flow_summary" /\ last.chat_guid = g /\ last.created) =>
      /\ flows[g] # NoRef
      /\ Flow(g).chat_guid = g
      /\ Flow(g).state = IDLE
      /\ Flow(g).field_index = 0
      /\ summary.chat_guid = g
      /\ summary.state = IDLE
      /\ \A f \in DOMAIN FormData : summary.form_data[f] = None
      /\ ~summary.is_form_complete
      /\ summary.conversation_history = flows[g]
      /\ Flow(g).conversation_history = <<>>

\* get_flow_summary has been called on a chat_guid not seen before
C20_Witness ==
  \E g \in SeqGuids :
    /\ last.op = "get_flow_summary" /\ last.chat_guid = g /\ last.created
    /\ summary # NoSummary

(* ------------------------------------------------------------- C21 *)
\* sequence p is a prefix of sequence q
IsPrefix(p, q) == Len(p) <= Len(q) /\ SubSeq(q, 1, Len(p)) = p

\* the calls a client makes on a session
SessionOps ==
  { "start_form_flow", "process_form_response", "complete_form_flow",
    "start_conversation", "reset_flow", "get_flow_summary" }

C22_ProcessChangesCurrentFieldOnly ==
  [][ \A g \in SeqGuids :
        (last'.op = "process_form_response" /\ last'.chat_guid = g
           /\ flows[g] # NoRef) =>
          /\ flows'[g] = flows[g]
          /\ \A f \in DOMAIN FormData :
               f # heap[flows[g]].current_field =>
                 heap'[flows'[g]].form_data[f] = heap[flows[g]].form_data[f] ]_vars

\* process_form_response has accepted an input for country on a flow whose
\* name and company were stored by earlier calls
C22_Witness ==
  \E g \in SeqGuids :
    /\ LastProcess(g)
    /\ Len(accepted[g]) = 3
    /\ accepted[g][3].field = "country"
    /\ Truthy(Flow(g).form_data.name)
    /\ Truthy(Flow(g).form_data.company)
    /\ Truthy(Flow(g).form_data.country)

(* ------------------------------------------------------------- C23 *)
\* field_index is within 0..Len(field_order) and a defined current field is
\* the field at field_index
CursorInRange(flow) ==
  /\ flow.field_index \in 0..Len(field_order)
  /\ flow.current_field # NoField =>
       /\ flow.field_index < Len(field_order)
       /\ flow.current_field = field_order[flow.field_index + 1]

\* process_form_response accepts an input for g with the cursor on the last
\* field
AcceptsAtLast(g) ==
  /\ last'.op = "process_form_response" /\ last'.chat_guid = g
  /\ accepted'[g] # accepted[g]
  /\ heap[flows[g]].field_index = Len(field_order) - 1

\* C23: in every reachable state field_index lies within 0..fieldCount and a
\* defined current field is the field at field_index; when
\* process_form_response accepts an input with field_index on the last
\* field, field_index keeps its value and the current field becomes None.
C23_CursorAndCurrentField ==
  /\ [](\A g \in SeqGuids : flows[g] # NoRef => CursorInRange(Flow(g)))
  /\ [][ \A g \in SeqGuids :
           AcceptsAtLast(g) =>
             /\ heap'[flows'[g]].field_index = heap[flows[g]].field_index
             /\ heap'[flows'[g]].current_field = NoField ]_vars

\* process_form_response has accepted the input for email, the last field
C23_Witness ==
  \E g \in SeqGuids :
    /\ LastProcess(g)
    /\ accepted[g] # <<>>
    /\ accepted[g][Len(accepted[g])].field = "email"
    /\ Flow(g).field_index = Len(field_order) - 1
    /\ Flow(g).current_field = NoField

(* ------------------------------------------------------------- C24 *)
\* C24: a call made with chat_guid a leaves every flow registered under
\* another chat_guid b as it is (state, values, cursor, current field and
\* history), and neither registers nor unregisters b.
C24_SessionsIsolated ==
  [][ \A a, b \in ChatGuids :
        (a # b /\ last'.chat_guid = a) =>
          /\ flows'[b] = flows[b]
          /\ flows[b] # NoRef => heap'[flows[b]] = heap[flows[b]] ]_vars

\* process_form_response has accepted an input for one chat while another
\* chat has a flow in FILLING_FORM that holds an accepted input of its own
C24_Witness ==
  \E a, b \in ChatGuids :
    /\ a # b
    /\ last.op = "process_form_response" /\ last.chat_guid = a
    /\ flows[a] # NoRef /\ flows[b] # NoRef
    /\ Len(Flow(a).conversation_history) = 1
    /\ Flow(b).state = FILLING_FORM
    /\ Len(Flow(b).conversation_history) = 1
    /\ Flow(b).current_field = "company"

(* ------------------------------------------------------------- C25 *)
\* C25: with calls made one at a time, a flow in FORM_COMPLETE has a
\* non-empty value in each of its four fields.
C25_FormCompleteImpliesFilled ==
  \A g \in SeqGuids :
    (flows[g] # NoRef /\ Flow(g).state = FORM_COMPLETE) =>
      \A f \in DOMAIN FormData :
        Flow(g).form_data[f] # None /\ Len(Flow(g).form_data[f]) > 0

\* a flow that was reset has been filled again and is in FORM_COMPLETE
C25_Witness ==
  \E g \in SeqGuids :
    /\ flows[g] # NoRef /\ wasReset[g]
    /\ LastProcess(g) /\ last.complete
    /\ Flow(g).state = FORM_COMPLETE

(* ------------------------------------------------------------- C26 *)
\* C26 as stated: from every reachable FILLING_FORM state, whatever inputs
\* were processed before, when non-blank inputs keep being processed and
\* neither reset_flow nor start_form_flow is called, the flow eventually
\* reaches FORM_COMPLETE.
C26_FillingEventuallyComplete ==
  \A g \in SeqGuids :
    (Feeding /\ flows[g] # NoRef /\ Flow(g).state = FILLING_FORM)
      ~> (flows[g] # NoRef /\ Flow(g).state = FORM_COMPLETE)

(* ------------------------------------------------------------- C27 *)
\* the webhook handles a message for g that fills the last field of its form
\* still without a non-empty value
FillsLastMissing(g) ==
  /\ last'.op = "webhook" /\ last'.chat_guid = g
  /\ flows[g] # NoRef
  /\ ~AllFilled(heap[flows[g]].form_data)
  /\ AllFilled(heap'[flows'[g]].form_data)

\* C27: with the requests handled one at a time, the handling of the message
\* that fills the last missing field also calls complete_form_flow, and no
\* request leaves a flow in FORM_COMPLETE: a completed form is in
\* AWAITING_AGENT.
C27_WebhookCompletesForm ==
  /\ [](\A g \in SeqGuids : flows[g] # NoRef => Flow(g).state # FORM_COMPLETE)
  /\ [][ \A g \in SeqGuids :
           FillsLastMissing(g) => heap'[flows'[g]].state = AWAITING_AGENT ]_vars

\* the webhook has handled the message that filled email, the last field
C27_Witness ==
  \E g \in SeqGuids :
    /\ last.op = "webhook" /\ last.chat_guid = g /\ flows[g] # NoRef
    /\ Flow(g).state = AWAITING_AGENT
    /\ AllFilled(Flow(g).form_data)
    /\ Flow(g).conversation_history # <<>>
    /\ Flow(g).conversation_history[Len(Flow(g).conversation_history)].field
         = "email"

(* ------------------------------------------------------------- C28 *)
\* the names of the countries a reply selects: the one whose option number
\* it is, else every one whose name it contains, letter case aside
Selected(reply) ==
  LET byNumber == { k \in 1..Len(country_map) :
                      IsTrimOf(country_map[k].code, reply) }
      byName == { k \in 1..Len(country_map) :
                    Contains(lower(country_map[k].name), lower(reply)) }
  IN  { country_map[k].name : k \in IF byNumber # {} THEN byNumber ELSE byName }

\* the webhook handles a message for g, whose flow is in FILLING_FORM with
\* country as its current field
CountryReply(g) ==
  /\ last'.op = "webhook" /\ last'.chat_guid = g
  /\ flows[g] # NoRef
  /\ heap[flows[g]].state = FILLING_FORM
  /\ heap[flows[g]].current_field = "country"

\* C28: in FILLING_FORM with current field country, a reply that is no
\* option number and contains no listed country name leaves the flow as it
\* is; a matching reply stores the name of the country it selects, not the
\* reply, and adds the history entry for it.
C28_CountryReply ==
  [][ \A g \in SeqGuids :
        CountryReply(g) =>
          IF Selected(last'.text) = {}
          THEN flows' = flows /\ heap' = heap
          ELSE /\ flows'[g] = flows[g]
               /\ heap'[flows[g]].form_data.country \in Selected(last'.text)
               /\ heap'[flows[g]].conversation_history =
                    Append(heap[flows[g]].conversation_history,
                           HistoryEntry("country",
                                        heap'[flows[g]].form_data.country)) ]_vars

\* the webhook has stored Canada for the reply " 2 "
C28_Witness ==
  \E g \in SeqGuids :
    /\ last.op = "webhook" /\ last.chat_guid = g /\ flows[g] # NoRef
    /\ last.text = << " ", "2", " " >>
    /\ Flow(g).current_field = "email"
    /\ Flow(g).form_data.country = country_map[2].name

====
